---- MODULE Spec2Model ----
(***************************************************************************)
(* kpub: a character-device publish/subscribe channel.  One topic is a    *)
(* circular byte buffer of msg_size * msg_count bytes shared by writer    *)
(* and reader files, guarded by topic->mtx, with the wait queues inq      *)
(* (readers) and outq (writers).                                          *)
(*                                                                         *)
(* The uint32_t fields len and rcount can wrap below zero.  A uint32_t     *)
(* value v is held here as the integer congruent to v modulo 2^32 that    *)
(* lies in [-2^31, 2^31): 2^32 - 1 is held as -1.  Within the bounds of   *)
(* the model no sum or difference leaves that range, so + and - on the    *)
(* representatives are the machine's + and - modulo 2^32, equality is      *)
(* equality, and "v > 0" (unsigned) is "v # 0".                            *)
(***************************************************************************)
EXTENDS Integers, Sequences, FiniteSets

\* ---------------------------------------------------------------- bounds
\* Longest length a read or a write call asks for.
MaxLen == 2
\* Bytes accepted by writes over a whole run (the stream is numbered 1, 2, ...).
MaxBytes == 3
\* Close calls that may be interrupted over a whole run.
MaxLeak == 1
\* Bytes accepted by writes over a whole run of SpecFair, where the writer
\* has to fill the buffer behind a reader that has fallen out of step.
MaxStream == 8

\* ------------------------------------------------------- program constants
MAX_MSG_SIZE == 4096
MAX_MSG_COUNT == 64
NUM_TOPICS == 256
MAX_STR_LEN == 64

\* The files (one thread each) and the thread that writes the sysfs attributes.
Files == {"f1", "f2", "f3"}
\* The two files at work where two are enough.
Pair == {"f1", "f2"}
Admin == "adm"
Procs == Files \cup {Admin}

\* f_mode of a file: FMODE_READ, FMODE_WRITE, both ("RW"), neither ("N").
Modes == {"R", "W", "RW", "N"}
\* Values written to the msg_size and msg_count attributes.
SizeInputs == {0, 1, 2, MAX_MSG_SIZE + 1}
CountInputs == {0, 1, 2, MAX_MSG_COUNT + 1}
\* Byte length of a write to a sysfs attribute (sizeof(uint32_t) is 4).
StoreLens == {4, 5}

VARIABLES
    msg_size, msg_count,    \* topic->msg_size, topic->msg_count
    nreaders, nwriters,     \* topic->nreaders, topic->nwriters
    wp, rp, len, rcount,    \* topic->wp, topic->rp, topic->len, topic->rcount
    buf,                    \* topic->buf: <<>> is NULL, else the allocated bytes
    mtx,                    \* topic->mtx: its holder, or "free"
    pc,                     \* where each thread is in its call
    op,                     \* the call each thread is in
    arg,                    \* the call's arguments: length, O_NONBLOCK
    ret,                    \* what the call that has just returned returned
    f_mode,                 \* file->f_mode of each open file, "none" when closed
    f_pos,                  \* file->f_pos
    nwritten,               \* history: bytes accepted by writes so far
    start,                  \* history: nwritten when the file was opened
    got,                    \* history: the bytes read from the file since open
    touched,                \* history: the thread's current call changed the topic
    leaks,                  \* history: close calls interrupted so far
    ub,                     \* an access outside the allocated memory happened
    topics,                 \* the list topics: name and minor of each topic
    minor_nums,             \* the minors i with minor_nums[i] = 1
    topic_mtx               \* topic_mtx: its holder, or "free"

topic == <<msg_size, msg_count, nreaders, nwriters, wp, rp, len, rcount, buf>>
threads == <<mtx, pc, op, arg, ret, f_mode, f_pos>>
history == <<nwritten, start, got, touched, leaks, ub>>
registry == <<topics, minor_nums, topic_mtx>>
vars == <<topic, threads, history, registry>>

Min(a, b) == IF a <= b THEN a ELSE b

\* size_t size = topic->msg_size * topic->msg_count
Size == msg_size * msg_count

\* min(n, (size_t)(a - b)): when b > a the difference wraps to at least
\* 2^64 - b, which is more than any n of the model.
MinSizeT(n, a, b) == IF a >= b THEN Min(n, a - b) ELSE n

\* What a call returns, held in ret for the one state that follows the return:
\* t is the caller, op the call, n the length it asked for, err the errno
\* ("none": success), val the count returned, mask the bits kpub_poll returns,
\* touched whether the call changed the topic or the file's offset.
NoRet ==
    [t |-> "none", op |-> "none", n |-> 0, err |-> "none", val |-> 0,
     mask |-> {}, touched |-> FALSE]
Ret(t, o, n, e, v, m, c) ==
    [t |-> t, op |-> o, n |-> n, err |-> e, val |-> v, mask |-> m, touched |-> c]
NoArg == [n |-> 0, nb |-> FALSE, l |-> 0]
Arg(n, nb, l) == [n |-> n, nb |-> nb, l |-> l]

\* What a call may change: the topic's fields and buffer, and the file's offset.
Changed(t) ==
    \/ topic' # topic
    \/ t \in Files /\ f_pos'[t] # f_pos[t]

\* The call goes on: nothing is returned in this step.
Continue(t) ==
    /\ ret' = NoRet
    /\ touched' = [touched EXCEPT ![t] = @ \/ Changed(t)]

\* The call returns e/v (and the mask m) to its caller.
ReturnMask(t, e, v, m) ==
    /\ ret' = Ret(t, op[t], arg[t].n, e, v, m, touched[t] \/ Changed(t))
    /\ op' = [op EXCEPT ![t] = "none"]
    /\ arg' = [arg EXCEPT ![t] = NoArg]
    /\ touched' = [touched EXCEPT ![t] = FALSE]

Return(t, e, v) == ReturnMask(t, e, v, {})

\* The topic the model follows through its calls, and the registry with this
\* topic alone in it: the first topic created gets minor 0.
DevName == "a"

Registered ==
    /\ topics = {[name |-> DevName, minor |-> 0]}
    /\ minor_nums = {0}
    /\ topic_mtx = "free"

\* A topic as create_topic_store leaves it (kzalloc: every field zero), with
\* the attributes msg_size and msg_count then set to ms and mc.
Created(ms, mc) ==
    /\ msg_size = ms /\ msg_count = mc
    /\ nreaders = 0 /\ nwriters = 0
    /\ wp = 0 /\ rp = 0 /\ len = 0 /\ rcount = 0
    /\ buf = <<>>
    /\ mtx = "free"
    /\ pc = [t \in Procs |-> "idle"]
    /\ op = [t \in Procs |-> "none"]
    /\ arg = [t \in Procs |-> NoArg]
    /\ ret = NoRet
    /\ f_mode = [f \in Files |-> "none"]
    /\ f_pos = [f \in Files |-> 0]
    /\ nwritten = 0
    /\ start = [f \in Files |-> 0]
    /\ got = [f \in Files |-> <<>>]
    /\ touched = [t \in Procs |-> FALSE]
    /\ leaks = 0
    /\ ub = FALSE
    /\ Registered

\* The configurations the topic is given before its files are opened.
Configs == {<<1, 1>>, <<1, 2>>, <<2, 2>>}

Init == \E c \in Configs : Created(c[1], c[2])

\* ------------------------------------------------------------ the calls
IsOpen(f) == f_mode[f] # "none" /\ op[f] # "open"

\* The names of the topics in the list, and whether the topic is one of them
\* (its device node exists).
TopicNames == {e.name : e \in topics}
Live == DevName \in TopicNames

\* pc after thread t moves to p and wake_up_interruptible() runs on the queue
\* the threads sleeping in call o wait on.
WakeUp(t, p, o) ==
    [x \in Procs |->
        IF x = t THEN p
        ELSE IF pc[x] = "sleep" /\ op[x] = o THEN "wait" ELSE pc[x]]

\* Thread t enters call o with arguments a and reaches the call's
\* mutex_lock: it takes the mutex when it is free and waits for it otherwise.
Enter(t, o, a) ==
    /\ ~ub /\ pc[t] = "idle"
    /\ op' = [op EXCEPT ![t] = o]
    /\ arg' = [arg EXCEPT ![t] = a]
    /\ ret' = NoRet
    /\ touched' = touched
    /\ IF mtx = "free"
       THEN mtx' = t /\ pc' = [pc EXCEPT ![t] = "crit"]
       ELSE mtx' = mtx /\ pc' = [pc EXCEPT ![t] = "lock"]

\* open(2) on the topic's device with f_mode m.
call_open(f, m) ==
    /\ Live /\ f_mode[f] = "none"
    /\ Enter(f, "open", NoArg)
    /\ f_mode' = [f_mode EXCEPT ![f] = m]
    /\ UNCHANGED <<topic, f_pos, nwritten, start, got, leaks, ub, registry>>

\* The last close(2) of the file.
call_release(f) ==
    /\ IsOpen(f)
    /\ Enter(f, "release", NoArg)
    /\ UNCHANGED <<topic, f_mode, f_pos, nwritten, start, got, leaks, ub, registry>>

\* read(2) of n bytes; nb is O_NONBLOCK.
call_read(f, n, nb) ==
    /\ IsOpen(f) /\ f_mode[f] = "R"
    /\ Enter(f, "read", Arg(n, nb, 0))
    /\ UNCHANGED <<topic, f_mode, f_pos, nwritten, start, got, leaks, ub, registry>>

\* poll(2).
call_poll(f) ==
    /\ IsOpen(f)
    /\ Enter(f, "poll", NoArg)
    /\ UNCHANGED <<topic, f_mode, f_pos, nwritten, start, got, leaks, ub, registry>>

\* Variant: the length is tested against msg_size alone.
BadLengthNoCap(n) == n % msg_size # 0

\* The lengths kpub_write refuses.
BadLength(n) == n % msg_size # 0 \/ n > Size

\* write(2) of n bytes; nb is O_NONBLOCK.  The length is checked before the
\* mutex is taken.  q bounds the bytes the writes of a run ask for.
call_write_upto(f, n, nb, q) ==
    /\ IsOpen(f) /\ f_mode[f] = "W"
    /\ nwritten + n <= q
    /\ IF BadLength(n)
       THEN /\ ~ub /\ pc[f] = "idle"
            /\ ret' = Ret(f, "write", n, "EINVAL", 0, {}, FALSE)
            /\ UNCHANGED <<mtx, pc, op, arg, touched>>
       ELSE Enter(f, "write", Arg(n, nb, 0))
    /\ UNCHANGED <<topic, f_mode, f_pos, nwritten, start, got, leaks, ub, registry>>

call_write(f, n, nb) == call_write_upto(f, n, nb, MaxBytes)

call_write_long(f, n, nb) == call_write_upto(f, n, nb, MaxStream)

\* A write of l bytes holding the value n to a sysfs attribute (o names its
\* store function).  sizeof(topic->msg_size) = sizeof(topic->msg_count) = 4.
call_store(o, n, l) ==
    /\ IF l > 4
       THEN /\ ~ub /\ pc[Admin] = "idle"
            /\ ret' = Ret(Admin, o, n, "EINVAL", 0, {}, FALSE)
            /\ UNCHANGED <<mtx, pc, op, arg, touched>>
       ELSE Enter(Admin, o, Arg(n, FALSE, l))
    /\ UNCHANGED <<topic, f_mode, f_pos, nwritten, start, got, leaks, ub, registry>>

call_msg_size_store(n, l) == call_store("msg_size_store", n, l)

call_msg_count_store(n, l) == call_store("msg_count_store", n, l)

\* ------------------------------------------------- the mutex and the queues
\* Variant: a waiting thread takes the mutex whether it is free or held.
mutex_lock_barging(t) ==
    /\ ~ub /\ pc[t] = "lock"
    /\ mtx' = t
    /\ pc' = [pc EXCEPT ![t] = "crit"]
    /\ UNCHANGED <<topic, op, arg, f_mode, f_pos, nwritten, start, got, leaks, ub,
                   registry>>
    /\ Continue(t)

\* A thread waiting in mutex_lock or mutex_lock_interruptible gets the mutex.
mutex_lock(t) ==
    /\ ~ub /\ pc[t] = "lock" /\ mtx = "free"
    /\ mtx' = t
    /\ pc' = [pc EXCEPT ![t] = "crit"]
    /\ UNCHANGED <<topic, op, arg, f_mode, f_pos, nwritten, start, got, leaks, ub,
                   registry>>
    /\ Continue(t)

\* What a file is left with when its call ends in -ERESTARTSYS: the file of a
\* failed open or of a close is gone.
ModeAfterSignal(t) ==
    IF t \in Files /\ op[t] \in {"open", "release"}
    THEN [f_mode EXCEPT ![t] = "none"]
    ELSE f_mode

\* The file is gone: its offset and its history go with it.
Forget(f) ==
    /\ f_pos' = [f_pos EXCEPT ![f] = 0]
    /\ start' = [start EXCEPT ![f] = 0]
    /\ got' = [got EXCEPT ![f] = <<>>]

\* The call returns -ERESTARTSYS.
Interrupted(t) ==
    /\ pc' = [pc EXCEPT ![t] = "idle"]
    /\ f_mode' = ModeAfterSignal(t)
    /\ leaks' = IF op[t] = "release" THEN leaks + 1 ELSE leaks
    /\ IF op[t] = "release" THEN Forget(t) ELSE UNCHANGED <<f_pos, start, got>>
    /\ UNCHANGED <<topic, nwritten, ub, registry>>
    /\ Return(t, "ERESTARTSYS", 0)

\* A signal arrives while the thread waits in mutex_lock_interruptible
\* (kpub_poll takes the mutex with mutex_lock).
mutex_lock_interrupted(t) ==
    /\ ~ub /\ pc[t] = "lock" /\ mtx # "free" /\ op[t] # "poll"
    /\ op[t] = "release" => leaks < MaxLeak
    /\ mtx' = mtx
    /\ Interrupted(t)

\* The condition of the call's wait_event_interruptible: *off != topic->wp
\* for a reader, topic->len < size (len taken as unsigned) for a writer.
WaitCond(t) ==
    IF op[t] = "read" THEN f_pos[t] # wp ELSE len >= 0 /\ len < Size

\* wait_event_interruptible looks at its condition, on entry and after each
\* wake-up: the thread goes on to mutex_lock_interruptible or (back) to sleep.
wait_event(t) ==
    /\ ~ub /\ pc[t] = "wait"
    /\ IF WaitCond(t)
       THEN IF mtx = "free"
            THEN mtx' = t /\ pc' = [pc EXCEPT ![t] = "crit"]
            ELSE mtx' = mtx /\ pc' = [pc EXCEPT ![t] = "lock"]
       ELSE mtx' = mtx /\ pc' = [pc EXCEPT ![t] = "sleep"]
    /\ UNCHANGED <<topic, op, arg, f_mode, f_pos, nwritten, start, got, leaks, ub,
                   registry>>
    /\ Continue(t)

\* A signal arrives while the thread sleeps in wait_event_interruptible: the
\* condition is looked at first, and when it holds the thread goes on to
\* mutex_lock_interruptible, which takes a free mutex and gives up otherwise.
wait_interrupted(t) ==
    /\ ~ub /\ pc[t] = "sleep"
    /\ IF WaitCond(t) /\ mtx = "free"
       THEN /\ mtx' = t
            /\ pc' = [pc EXCEPT ![t] = "crit"]
            /\ UNCHANGED <<topic, op, arg, f_mode, f_pos, nwritten, start, got,
                           leaks, ub, registry>>
            /\ Continue(t)
       ELSE /\ mtx' = mtx
            /\ Interrupted(t)

\* ------------------------------------------------------ the file operations
Zeros(n) == [i \in 1..n |-> 0]

\* Variant: the cursor of a new file starts at the tail.
OpenPosTail == rp

\* file->f_pos = topic->wp: where a new file starts.
OpenPos == wp

\* Variant: the f_mode of the file is not looked at.
OpenErrAnyMode(t, oom) ==
    IF msg_size = 0 \/ msg_count = 0 \/ oom THEN "ENOMEM" ELSE "none"

\* What kpub_open returns.  oom: kzalloc fails.
OpenErr(t, oom) ==
    IF msg_size = 0 \/ msg_count = 0 \/ oom THEN "ENOMEM"
    ELSE IF f_mode[t] \in {"R", "W"} THEN "none" ELSE "EACCES"

\* kpub_open under the mutex.  oom: kzalloc fails.
kpub_open(t) ==
    /\ ~ub /\ pc[t] = "crit" /\ op[t] = "open"
    /\ \E oom \in (IF buf = <<>> THEN BOOLEAN ELSE {FALSE}) :
        LET unset == msg_size = 0 \/ msg_count = 0
            alloc == ~unset /\ buf = <<>> /\ ~oom
            err == OpenErr(t, oom)
        IN  /\ buf' = IF alloc THEN Zeros(Size) ELSE buf
            /\ nreaders' = IF err = "none" /\ f_mode[t] = "R"
                            THEN nreaders + 1 ELSE nreaders
            /\ nwriters' = IF err = "none" /\ f_mode[t] = "W"
                            THEN nwriters + 1 ELSE nwriters
            /\ f_pos' = IF err = "none" THEN [f_pos EXCEPT ![t] = OpenPos] ELSE f_pos
            /\ rp' = IF err = "none" THEN wp ELSE rp
            /\ len' = IF err = "none" THEN 0 ELSE len
            /\ f_mode' = IF err = "none" THEN f_mode
                          ELSE [f_mode EXCEPT ![t] = "none"]
            /\ start' = IF err = "none" THEN [start EXCEPT ![t] = nwritten]
                         ELSE start
            /\ got' = got
            /\ mtx' = "free"
            /\ pc' = [pc EXCEPT ![t] = "idle"]
            /\ UNCHANGED <<msg_size, msg_count, wp, rcount, nwritten, leaks, ub,
                           registry>>
            /\ Return(t, err, 0)

\* kpub_release under the mutex.
kpub_release(t) ==
    /\ ~ub /\ pc[t] = "crit" /\ op[t] = "release"
    /\ nreaders' = IF f_mode[t] = "R" THEN nreaders - 1 ELSE nreaders
    /\ nwriters' = IF f_mode[t] = "W" THEN nwriters - 1 ELSE nwriters
    /\ f_mode' = [f_mode EXCEPT ![t] = "none"]
    /\ Forget(t)
    /\ mtx' = "free"
    /\ pc' = [pc EXCEPT ![t] = "idle"]
    /\ UNCHANGED <<msg_size, msg_count, wp, rp, len, rcount, buf,
                   nwritten, leaks, ub, registry>>
    /\ Return(t, IF f_mode[t] \in {"R", "W"} THEN "none" ELSE "EACCES", 0)

\* The length kpub_read copies: up to topic->wp, or up to the end of the
\* buffer when wp is not ahead of *off.
ReadLen(t) ==
    IF wp > f_pos[t]
    THEN Min(arg[t].n, wp - f_pos[t])
    ELSE MinSizeT(arg[t].n, Size, f_pos[t])

\* *off after n more bytes.
Advance(pos, n) == IF pos + n = Size THEN 0 ELSE pos + n

\* The bytes buf[pos .. pos + n - 1] (C indices).
Bytes(pos, n) == [i \in 1..n |-> buf[pos + i]]

\* Variant: O_NONBLOCK is tested before the mutex is released.
BlockHoldingLock(t) ==
    /\ UNCHANGED <<topic, f_mode, f_pos, nwritten, start, got, leaks, ub, registry>>
    /\ IF arg[t].nb
       THEN /\ mtx' = mtx
            /\ pc' = [pc EXCEPT ![t] = "idle"]
            /\ Return(t, "EAGAIN", 0)
       ELSE /\ mtx' = "free"
            /\ pc' = [pc EXCEPT ![t] = "wait"]
            /\ UNCHANGED <<op, arg>>
            /\ Continue(t)

\* Variant: a read takes its turn at the gate before it goes to sleep.
BlockCountsReader(t) ==
    /\ mtx' = "free"
    /\ rcount' = IF op[t] = "read" THEN rcount - 1 ELSE rcount
    /\ UNCHANGED <<msg_size, msg_count, nreaders, nwriters, wp, rp, len, buf>>
    /\ UNCHANGED <<f_mode, f_pos, nwritten, start, got, leaks, ub, registry>>
    /\ IF arg[t].nb
       THEN /\ pc' = [pc EXCEPT ![t] = "idle"]
            /\ Return(t, "EAGAIN", 0)
       ELSE /\ pc' = [pc EXCEPT ![t] = "wait"]
            /\ UNCHANGED <<op, arg>>
            /\ Continue(t)

\* The loop head of kpub_read and kpub_write found nothing to do: the mutex
\* is released and the call returns -EAGAIN or goes to wait_event_interruptible.
Block(t) ==
    /\ mtx' = "free"
    /\ UNCHANGED <<topic, f_mode, f_pos, nwritten, start, got, leaks, ub, registry>>
    /\ IF arg[t].nb
       THEN /\ pc' = [pc EXCEPT ![t] = "idle"]
            /\ Return(t, "EAGAIN", 0)
       ELSE /\ pc' = [pc EXCEPT ![t] = "wait"]
            /\ UNCHANGED <<op, arg>>
            /\ Continue(t)

\* copy_to_user or copy_from_user fails: -EFAULT.
Fault(t) ==
    /\ mtx' = "free"
    /\ pc' = [pc EXCEPT ![t] = "idle"]
    /\ UNCHANGED <<topic, f_mode, f_pos, nwritten, start, got, leaks, ub, registry>>
    /\ Return(t, "EFAULT", 0)

\* The copy reaches outside the allocation: the behaviour is undefined from
\* here on, and the model stops.
OutOfBounds(t) ==
    /\ ub' = TRUE
    /\ ret' = NoRet
    /\ UNCHANGED <<topic, mtx, pc, op, arg, f_mode, f_pos, nwritten, start, got,
                   touched, leaks, registry>>

\* kpub_read under the mutex, from the head of its loop.  fault: the user
\* buffer cannot be written.
kpub_read(t) ==
    /\ ~ub /\ pc[t] = "crit" /\ op[t] = "read"
    /\ IF f_pos[t] = wp
       THEN Block(t)
       ELSE \E fault \in BOOLEAN :
            LET n == ReadLen(t)
                rc == rcount - 1
            IN  IF n > 0 /\ f_pos[t] + n > Len(buf) THEN OutOfBounds(t)
                ELSE IF fault THEN Fault(t)
                ELSE /\ got' = [got EXCEPT ![t] = @ \o Bytes(f_pos[t], n)]
                     /\ f_pos' = [f_pos EXCEPT ![t] = Advance(@, n)]
                     /\ rcount' = rc
                     /\ rp' = IF rc = 0 THEN Advance(rp, n) ELSE rp
                     /\ len' = IF rc = 0 THEN len - n ELSE len
                     /\ mtx' = "free"
                     /\ pc' = WakeUp(t, "idle", "write")
                     /\ UNCHANGED <<msg_size, msg_count, nreaders, nwriters, wp,
                                    buf, f_mode, nwritten, start, leaks, ub, registry>>
                     /\ Return(t, "none", n)

\* The length kpub_write copies: clamped against the writer's own *off.
WriteLen(t) ==
    IF wp >= f_pos[t]
    THEN MinSizeT(arg[t].n, Size, wp)
    ELSE Min(arg[t].n, f_pos[t] - wp)

\* buf after the next n bytes of the stream are copied to buf[pos ..].
Store(pos, n) ==
    [i \in 1..Len(buf) |->
        IF i > pos /\ i <= pos + n THEN nwritten + (i - pos) ELSE buf[i]]

\* kpub_write under the mutex, from the head of its loop.  fault: the user
\* buffer cannot be read.
kpub_write(t) ==
    /\ ~ub /\ pc[t] = "crit" /\ op[t] = "write"
    /\ IF len = Size
       THEN Block(t)
       ELSE \E fault \in BOOLEAN :
            LET n == WriteLen(t)
            IN  IF n > 0 /\ wp + n > Len(buf) THEN OutOfBounds(t)
                ELSE IF fault THEN Fault(t)
                ELSE /\ buf' = Store(wp, n)
                     /\ wp' = Advance(wp, n)
                     /\ len' = len + n
                     /\ rcount' = nreaders
                     /\ nwritten' = nwritten + n
                     /\ mtx' = "free"
                     /\ pc' = WakeUp(t, "idle", "read")
                     /\ UNCHANGED <<msg_size, msg_count, nreaders, nwriters, rp,
                                    f_mode, f_pos, start, got, leaks, ub, registry>>
                     /\ Return(t, "none", n)

\* The mask kpub_poll computes.
PollMask ==
    (IF len # 0 THEN {"POLLIN", "POLLRDNORM"} ELSE {})
        \cup (IF len = Size THEN {"POLLOUT", "POLLWRNORM"} ELSE {})

\* kpub_poll under the mutex.
kpub_poll(t) ==
    /\ ~ub /\ pc[t] = "crit" /\ op[t] = "poll"
    /\ mtx' = "free"
    /\ pc' = [pc EXCEPT ![t] = "idle"]
    /\ UNCHANGED <<topic, f_mode, f_pos, nwritten, start, got, leaks, ub, registry>>
    /\ ReturnMask(t, "none", 0, PollMask)

\* msg_size_store and msg_count_store under the mutex: the new value of the
\* attribute and the value returned, for the limit max.
StoreErr(max, t) ==
    IF nreaders # 0 \/ nwriters # 0 \/ arg[t].n > max THEN "EINVAL" ELSE "none"

\* Variant: the attribute is written whether or not files are open.
StoredWhileOpen(old, max, t) ==
    IF arg[t].n > max THEN 0 ELSE arg[t].n

Stored(old, max, t) ==
    IF nreaders # 0 \/ nwriters # 0 THEN old
    ELSE IF arg[t].n > max THEN 0 ELSE arg[t].n

StoreDone(max, t) ==
    /\ mtx' = "free"
    /\ pc' = [pc EXCEPT ![t] = "idle"]
    /\ UNCHANGED <<nreaders, nwriters, wp, rp, len, rcount, buf,
                   f_mode, f_pos, nwritten, start, got, leaks, ub, registry>>
    /\ Return(t, StoreErr(max, t),
              IF StoreErr(max, t) = "none" THEN arg[t].l ELSE 0)

msg_size_store(t) ==
    /\ ~ub /\ pc[t] = "crit" /\ op[t] = "msg_size_store"
    /\ msg_size' = Stored(msg_size, MAX_MSG_SIZE, t)
    /\ msg_count' = msg_count
    /\ StoreDone(MAX_MSG_SIZE, t)

msg_count_store(t) ==
    /\ ~ub /\ pc[t] = "crit" /\ op[t] = "msg_count_store"
    /\ msg_count' = Stored(msg_count, MAX_MSG_COUNT, t)
    /\ msg_size' = msg_size
    /\ StoreDone(MAX_MSG_COUNT, t)

\* ------------------------------------------------------- the specification
Lens == 1..MaxLen

Next ==
    \/ \E f \in Pair, m \in Modes : call_open(f, m)
    \/ \E f \in Pair : call_release(f)
    \/ \E f \in Pair, n \in Lens, nb \in BOOLEAN : call_read(f, n, nb)
    \/ \E f \in Pair, n \in Lens, nb \in BOOLEAN : call_write(f, n, nb)
    \/ \E f \in Pair : call_poll(f)
    \/ \E t \in Pair : mutex_lock(t)
    \/ \E t \in Pair : mutex_lock_interrupted(t)
    \/ \E t \in Pair : wait_event(t)
    \/ \E t \in Pair : wait_interrupted(t)
    \/ \E t \in Pair : kpub_open(t)
    \/ \E t \in Pair : kpub_release(t)
    \/ \E t \in Pair : kpub_read(t)
    \/ \E t \in Pair : kpub_write(t)
    \/ \E t \in Pair : kpub_poll(t)

Spec == Init /\ [][Next]_vars

\* The topic, created and set to ms and mc, after the files f with
\* m[f] # "none" were opened with f_mode m[f], before anything is written.
Opened(ms, mc, m) ==
    /\ msg_size = ms /\ msg_count = mc
    /\ nreaders = Cardinality({f \in Files : m[f] = "R"})
    /\ nwriters = Cardinality({f \in Files : m[f] = "W"})
    /\ wp = 0 /\ rp = 0 /\ len = 0 /\ rcount = 0
    /\ buf = Zeros(ms * mc)
    /\ mtx = "free"
    /\ pc = [t \in Procs |-> "idle"]
    /\ op = [t \in Procs |-> "none"]
    /\ arg = [t \in Procs |-> NoArg]
    /\ ret = NoRet
    /\ f_mode = m
    /\ f_pos = [f \in Files |-> 0]
    /\ nwritten = 0
    /\ start = [f \in Files |-> 0]
    /\ got = [f \in Files |-> <<>>]
    /\ touched = [t \in Procs |-> FALSE]
    /\ leaks = 0
    /\ ub = FALSE
    /\ Registered

\* One writer (f1) and one reader (f2), both opened before anything is
\* written.  Only reads and writes follow.
InitSRSW ==
    \E c \in Configs :
        Opened(c[1], c[2],
               [f \in Files |-> IF f = "f1" THEN "W"
                                ELSE IF f = "f2" THEN "R" ELSE "none"])

NextSRSW ==
    \/ \E f \in Pair, n \in Lens, nb \in BOOLEAN : call_read(f, n, nb)
    \/ \E f \in Pair, n \in Lens, nb \in BOOLEAN : call_write(f, n, nb)
    \/ \E t \in Pair : mutex_lock(t)
    \/ \E t \in Pair : mutex_lock_interrupted(t)
    \/ \E t \in Pair : wait_event(t)
    \/ \E t \in Pair : wait_interrupted(t)
    \/ \E t \in Pair : kpub_read(t)
    \/ \E t \in Pair : kpub_write(t)

SpecSRSW == InitSRSW /\ [][NextSRSW]_vars

\* One writer (f1) and two readers (f2, f3), all opened before anything is
\* written.  Only reads and writes follow.
InitGate ==
    \E c \in Configs :
        Opened(c[1], c[2], [f \in Files |-> IF f = "f1" THEN "W" ELSE "R"])

NextGate ==
    \/ \E f \in Files, n \in Lens, nb \in BOOLEAN : call_read(f, n, nb)
    \/ \E f \in Files, n \in Lens, nb \in BOOLEAN : call_write(f, n, nb)
    \/ \E t \in Files : mutex_lock(t)
    \/ \E t \in Files : mutex_lock_interrupted(t)
    \/ \E t \in Files : wait_event(t)
    \/ \E t \in Files : wait_interrupted(t)
    \/ \E t \in Files : kpub_read(t)
    \/ \E t \in Files : kpub_write(t)

SpecGate == InitGate /\ [][NextGate]_vars

\* The life of a topic from create_topic_store on: its attributes are
\* written and its files opened and closed, in any order.
InitConfig == Created(0, 0)

Callers == Pair \cup {Admin}

NextConfig ==
    \/ \E n \in SizeInputs, l \in StoreLens : call_msg_size_store(n, l)
    \/ \E n \in CountInputs, l \in StoreLens : call_msg_count_store(n, l)
    \/ \E f \in Pair, m \in Modes : call_open(f, m)
    \/ \E f \in Pair : call_release(f)
    \/ \E t \in Callers : mutex_lock(t)
    \/ \E t \in Callers : mutex_lock_interrupted(t)
    \/ msg_size_store(Admin)
    \/ msg_count_store(Admin)
    \/ \E t \in Pair : kpub_open(t)
    \/ \E t \in Pair : kpub_release(t)

SpecConfig == InitConfig /\ [][NextConfig]_vars

\* ---------------------------------------------------------------- claims
Readers == {f \in Files : IsOpen(f) /\ f_mode[f] = "R"}
Writers == {f \in Files : IsOpen(f) /\ f_mode[f] = "W"}

\* The bytes of the stream published since reader h was opened that h has
\* not read yet, and the place byte i of the stream was copied to.
Unread(h) == (start[h] + Len(got[h]) + 1)..nwritten
Slot(i) == ((i - 1) % Size) + 1

\* What h has read is the stream from the byte after its open, in order.
InOrder(h) == \A k \in 1..Len(got[h]) : got[h][k] = start[h] + k

\* C1: broadcast gate.  Every reader open when bytes were accepted reads
\* exactly those bytes, in order; until it has, they stay counted in
\* pending_len (topic->len) and no later write overwrites them.
C1_BroadcastGate ==
    \A h \in Readers :
        /\ InOrder(h)
        /\ len >= Cardinality(Unread(h))
        /\ \A i \in Unread(h) : buf[Slot(i)] = i

\* C2: one reader, one writer, both opened before the first write.  What the
\* reader has read is a prefix of what the writer's writes accepted, byte for
\* byte, and once the reader has caught up (cursor = wp) it is all of it.
C2_StreamIntact ==
    \A h \in Readers :
        /\ Len(got[h]) <= nwritten
        /\ \A k \in 1..Len(got[h]) : got[h][k] = k
        /\ f_pos[h] = wp => Len(got[h]) = nwritten

\* Thread t is suspended in call o: it waits for its condition.
Suspended(t, o) == op[t] = o /\ pc[t] \in {"wait", "sleep"}

\* C3: no deadlock.  With a writer and a reader open, never is a writer
\* suspended on a full buffer (len = size) while every open reader is
\* suspended waiting for data (cursor = wp).
C3_NoDeadlock ==
    ~ /\ Readers # {}
      /\ \E w \in Writers : Suspended(w, "write") /\ len = Size
      /\ \A r \in Readers : Suspended(r, "read") /\ f_pos[r] = wp

\* C4: 0 <= pending_len <= capacity_bytes in every reachable state (len is
\* unsigned: a negative representative is a value of 2^31 or more).
C4_PendingInRange == 0 <= len /\ len <= Size

\* Reader h is in a blocking read, under the mutex, no writer is open and h
\* has read every byte published since it was opened.
AtEndOfStream(h) ==
    /\ pc[h] = "crit" /\ op[h] = "read" /\ ~arg[h].nb
    /\ nwriters = 0
    /\ Len(got[h]) > 0 /\ Unread(h) = {} /\ InOrder(h)

\* C5: end of stream.  A blocking read by a reader that has consumed every
\* byte published while it was open, made after the last writer was closed,
\* returns 0.
C5_EndOfStream ==
    [][\A h \in Files :
          AtEndOfStream(h) /\ pc'[h] # "crit"
              => ret'.t = h /\ ret'.err = "none" /\ ret'.val = 0]_vars

\* C6: poll reports readable exactly when the file's cursor differs from wp
\* and writable exactly when pending_len < capacity_bytes, and changes
\* nothing (ret holds the mask in the state the call returns in).
C6_PollReadiness ==
    ret.op = "poll" =>
        /\ ("POLLIN" \in ret.mask) <=> (f_pos[ret.t] # wp)
        /\ ("POLLOUT" \in ret.mask) <=> (0 <= len /\ len < msg_size * msg_count)
        /\ ~ret.touched

\* C7: when the open of a reader completes its cursor is wp, and no byte a
\* reader reads was published before the reader was opened.
C7_ReaderStartsAtWritePos ==
    /\ ret.op = "open" /\ ret.err = "none" /\ f_mode[ret.t] = "R"
           => f_pos[ret.t] = wp
    /\ \A h \in Readers : \A k \in 1..Len(got[h]) : got[h][k] > start[h]

C7_Witness ==
    \E h \in Readers : start[h] > 0 /\ Len(got[h]) > 0

\* File h is in a call with O_NONBLOCK, under the mutex, and has nothing to
\* read (cursor = wp) or no room to write (len = size).
WouldBlock(h) ==
    /\ pc[h] = "crit" /\ arg[h].nb
    /\ \/ op[h] = "read" /\ f_pos[h] = wp
       \/ op[h] = "write" /\ len = msg_size * msg_count

\* C8: with O_NONBLOCK, a read that finds cursor = wp and a write that finds
\* len = size return -EAGAIN in that step, the mutex released, no field of
\* the topic and no cursor changed.
C8_NonBlocking ==
    [][\A h \in Files :
          WouldBlock(h) /\ pc'[h] # "crit"
              => /\ ret'.t = h /\ ret'.err = "EAGAIN" /\ ~ret'.touched
                 /\ pc'[h] = "idle" /\ mtx' = "free"
                 /\ topic' = topic /\ f_pos' = f_pos]_vars

C8_Witness ==
    ret.op = "write" /\ ret.err = "EAGAIN" /\ len = msg_size * msg_count

\* C9: a read or a write that returns -ERESTARTSYS has changed no field of
\* the topic, nothing in the buffer and not its cursor, in any of its steps,
\* and does not hold the mutex.
C9_InterruptedClean ==
    ret.err = "ERESTARTSYS" /\ ret.op \in {"read", "write"}
        => ~ret.touched /\ mtx # ret.t /\ pc[ret.t] = "idle"

C9_Witness ==
    ret.err = "ERESTARTSYS" /\ ret.op = "read" /\ len > 0

\* C10: a write whose length is no multiple of msg_size or exceeds the
\* capacity returns -EINVAL and changes nothing.
C10_BadLengthRejected ==
    ret.op = "write" /\ (ret.n % msg_size # 0 \/ ret.n > msg_size * msg_count)
        => ret.err = "EINVAL" /\ ~ret.touched /\ mtx # ret.t

C10_Witness ==
    /\ ret.op = "write" /\ ret.err = "EINVAL"
    /\ ret.n > msg_size * msg_count /\ len > 0

\* The calls that write the attributes, and the limit of each.
Stores == {"msg_size_store", "msg_count_store"}
Limit(o) == IF o = "msg_size_store" THEN MAX_MSG_SIZE ELSE MAX_MSG_COUNT
Attr(o) == IF o = "msg_size_store" THEN msg_size ELSE msg_count

\* C11: while nreaders + nwriters > 0 no step changes msg_size or msg_count,
\* and every write to one of the two attributes that returns has failed.
C11_ConfigFrozenWhileOpen ==
    [][nreaders + nwriters > 0
          => /\ msg_size' = msg_size /\ msg_count' = msg_count
             /\ ret'.op \in Stores => ret'.err # "none"]_vars

C11_Witness ==
    /\ ret.op = "msg_size_store" /\ ret.err = "EINVAL"
    /\ nreaders + nwriters > 0
    /\ ret.n \in 1..MAX_MSG_SIZE /\ ret.n # msg_size

\* C12: with no file open, a write of n to msg_size or msg_count that is not
\* interrupted returns -EINVAL when n = 0 or n exceeds the limit, and
\* succeeds, storing n, only when 1 <= n <= the limit.
C12_StoreLimits ==
    ret.op \in Stores /\ ret.err # "ERESTARTSYS" /\ nreaders = 0 /\ nwriters = 0
        => /\ ret.n = 0 \/ ret.n > Limit(ret.op) => ret.err = "EINVAL"
           /\ ret.err = "none"
                 => 1 <= ret.n /\ ret.n <= Limit(ret.op) /\ Attr(ret.op) = ret.n

\* C13: kpub_open succeeds only with msg_size # 0, msg_count # 0 and a file
\* opened for reading or for writing, not both and not neither; on an
\* unconfigured topic it returns -ENOMEM (the code's error for a topic that
\* is not ready), for any other f_mode -EACCES, and a failed open leaves
\* nreaders and nwriters as they were.
C13_OpenChecks ==
    [][\A h \in Files :
          pc[h] = "crit" /\ op[h] = "open" /\ ret'.t = h
              => /\ ret'.err = "none"
                     => msg_size # 0 /\ msg_count # 0 /\ f_mode[h] \in {"R", "W"}
                 /\ msg_size = 0 \/ msg_count = 0 => ret'.err = "ENOMEM"
                 /\ msg_size # 0 /\ msg_count # 0 /\ f_mode[h] \notin {"R", "W"}
                        => ret'.err \in {"EACCES", "ENOMEM"}
                 /\ msg_size # 0 /\ msg_count # 0 /\ buf # <<>>
                    /\ f_mode[h] \notin {"R", "W"} => ret'.err = "EACCES"
                 /\ ret'.err # "none"
                        => nreaders' = nreaders /\ nwriters' = nwriters]_vars

C13_Witness ==
    /\ ret.op = "open" /\ ret.err = "ENOMEM"
    /\ msg_size = 0 /\ msg_count # 0 /\ buf # <<>>

\* File h is in kpub_write (kpub_open, kpub_release) under the mutex.
InWrite(h) == pc[h] = "crit" /\ op[h] = "write"
InOpen(h) == pc[h] = "crit" /\ op[h] = "open"

\* C14: on a fresh topic (nothing written, wp = 0, len = 0) a write of
\* msg_size * msg_count bytes is accepted in full and leaves len = size; no
\* write is accepted while len = size; and once that first write has filled
\* the buffer, only a read that succeeds takes len away from size.
C14_FullUntilRead ==
    [][/\ \A h \in Files :
              InWrite(h) /\ ret'.t = h /\ ret'.err = "none"
                  => /\ len # msg_size * msg_count
                     /\ nwritten = 0 /\ wp = 0 /\ len = 0
                        /\ arg[h].n = msg_size * msg_count
                            => ret'.val = arg[h].n /\ len' = msg_size * msg_count
       /\ len = msg_size * msg_count /\ nwritten = len /\ len' # len
              => ret'.op = "read" /\ ret'.err = "none"]_vars

\* C15: with one writer and no reader open, a write of one message that is
\* accepted leaves rcount = 0, and a write that would bring len to at most
\* msg_size * msg_count is not made to wait and is not sent back with -EAGAIN.
C15_WriterOnly ==
    [][\A h \in Files :
          InWrite(h) /\ Writers = {h} /\ Readers = {} /\ pc'[h] # "crit"
              => /\ arg[h].n = msg_size /\ ret'.t = h /\ ret'.err = "none"
                        => rcount' = 0
                 /\ 0 <= len /\ len + arg[h].n <= msg_size * msg_count
                        => pc'[h] = "idle" /\ ret'.t = h /\ ret'.err # "EAGAIN"]_vars

\* C16: nreaders is the number of files open for reading (opened with
\* success, not yet closed), nwriters the number open for writing.
C16_CountsMatchHandles ==
    /\ nreaders = Cardinality(Readers)
    /\ nwriters = Cardinality(Writers)

\* C17: a kpub_open that succeeds adds one to nreaders or to nwriters, sets
\* the file's offset and allocates the buffer when there is none; wp, rp,
\* len, rcount, an allocated buffer and the other files' offsets stay.
C17_OpenFrame ==
    [][\A h \in Files :
          InOpen(h) /\ ret'.t = h /\ ret'.err = "none"
              => /\ wp' = wp /\ rp' = rp /\ len' = len /\ rcount' = rcount
                 /\ msg_size' = msg_size /\ msg_count' = msg_count
                 /\ buf # <<>> => buf' = buf
                 /\ nreaders' + nwriters' = nreaders + nwriters + 1
                 /\ \A g \in Files \ {h} : f_pos'[g] = f_pos[g]]_vars

\* C18: a close takes one from the count of the file's kind and changes
\* nothing else of the topic.
C18_CloseFrame ==
    [][\A h \in Files :
          op[h] = "release" /\ ret'.t = h
              => /\ nreaders' = nreaders - (IF f_mode[h] = "R" THEN 1 ELSE 0)
                 /\ nwriters' = nwriters - (IF f_mode[h] = "W" THEN 1 ELSE 0)
                 /\ wp' = wp /\ rp' = rp /\ len' = len /\ rcount' = rcount
                 /\ buf' = buf /\ msg_size' = msg_size /\ msg_count' = msg_count]_vars

\* C19: the length a write accepts is min(n, size - wp) when wp >= rp and
\* min(n, rp - wp) otherwise.
C19_ClampAgainstTail ==
    [][\A h \in Files :
          InWrite(h) /\ ret'.t = h /\ ret'.err = "none"
              => ret'.val = IF wp >= rp
                            THEN Min(arg[h].n, msg_size * msg_count - wp)
                            ELSE Min(arg[h].n, rp - wp)]_vars

\* C20: a file in kpub_write past its mutex_lock holds the mutex and no other
\* file is under it; the bytes its write accepts are stored in buf[wp ..
\* wp + n - 1], the rest of buf stays, wp grows by n (back to 0 at size) and
\* len grows by n.
C20_WritesSerialised ==
    [][\A h \in Files :
          InWrite(h)
              => /\ mtx = h
                 /\ \A g \in Files \ {h} : pc[g] # "crit"
                 /\ ret'.t = h /\ ret'.err = "none"
                        => LET n == ret'.val
                           IN  /\ wp + n <= Len(buf)
                               /\ buf' = [i \in 1..Len(buf) |->
                                            IF wp < i /\ i <= wp + n
                                            THEN nwritten + (i - wp) ELSE buf[i]]
                               /\ wp' = (wp + n) % (msg_size * msg_count)
                               /\ len' = len + n
                               /\ nwritten' = nwritten + n]_vars

C20_Witness ==
    /\ ret.op = "write" /\ ret.err = "none" /\ ret.val = 2
    /\ \E g \in Writers \ {ret.t} : op[g] = "write" /\ pc[g] = "lock"

\* A topic that is used, closed, given another msg_count and used again.  No
\* signal is delivered.  ResizeInputs: the values written to msg_count.
ResizeInputs == {1, 2, 3}

Closed == \A f \in Files : f_mode[f] = "none"

\* With every file closed, a 4-byte write of n to the msg_count attribute.
call_resize(n) == Closed /\ call_msg_count_store(n, 4)

NextReuse ==
    \/ \E n \in ResizeInputs : call_resize(n)
    \/ msg_count_store(Admin)
    \/ \E f \in Pair, m \in {"R", "W"} : call_open(f, m)
    \/ \E f \in Pair : call_release(f)
    \/ \E f \in Pair, n \in Lens, nb \in BOOLEAN : call_read(f, n, nb)
    \/ \E f \in Pair, n \in Lens, nb \in BOOLEAN : call_write(f, n, nb)
    \/ \E t \in Callers : mutex_lock(t)
    \/ \E t \in Pair : wait_event(t)
    \/ \E t \in Pair : kpub_open(t)
    \/ \E t \in Pair : kpub_release(t)
    \/ \E t \in Pair : kpub_read(t)
    \/ \E t \in Pair : kpub_write(t)

SpecReuse == Init /\ [][NextReuse]_vars

\* One writer and one reader as in SpecSRSW, under fair scheduling: a thread
\* that is runnable runs (wait_event, kpub_read, kpub_write) and a thread
\* waiting for the mutex gets it in the end.  Calls and signals come as the
\* callers please.
NextFair ==
    \/ \E f \in Pair, n \in Lens, nb \in BOOLEAN : call_read(f, n, nb)
    \/ \E f \in Pair, n \in Lens, nb \in BOOLEAN : call_write_long(f, n, nb)
    \/ \E t \in Pair : mutex_lock(t)
    \/ \E t \in Pair : mutex_lock_interrupted(t)
    \/ \E t \in Pair : wait_event(t)
    \/ \E t \in Pair : wait_interrupted(t)
    \/ \E t \in Pair : kpub_read(t)
    \/ \E t \in Pair : kpub_write(t)

Fairness ==
    \A t \in Pair :
        /\ WF_vars(wait_event(t))
        /\ SF_vars(mutex_lock(t))
        /\ WF_vars(kpub_read(t))
        /\ WF_vars(kpub_write(t))

SpecFair == InitSRSW /\ [][NextFair]_vars /\ Fairness

\* The call of file h has returned.
Resumed(h) == ret.t = h

\* C21: no lost wake-up.  Under fair scheduling a reader suspended in a read
\* with its offset different from wp, and a writer suspended in a write with
\* len < size, resume and return.
C21_NoLostWakeup ==
    \A h \in Pair :
        /\ (Suspended(h, "read") /\ f_pos[h] # wp) ~> Resumed(h)
        /\ (Suspended(h, "write") /\ 0 <= len /\ len < msg_size * msg_count)
               ~> Resumed(h)

\* v mod s for the uint32_t whose representative is v: a negative v stands
\* for 2^32 + v, and 2^32 mod s = (2^16 mod s)^2 mod s.
ModU32(v, s) ==
    IF v >= 0 THEN v % s ELSE ((((65536 % s) * (65536 % s)) % s) + v) % s

\* C22: with a file open, len is the ring distance from rp to wp: len mod
\* size is (wp - rp) mod size, and len = size only when the buffer is full
\* (wp has come round to rp).
C22_RingDistance ==
    Readers \cup Writers # {}
        => /\ ModU32(len, msg_size * msg_count)
                  = (wp - rp) % (msg_size * msg_count)
           /\ len = msg_size * msg_count => wp = rp

\* C23: with a file open, wp, rp and the offset of every open file lie in
\* [0, size).
C23_PositionsInRange ==
    Readers \cup Writers # {}
        => /\ 0 <= wp /\ wp < msg_size * msg_count
           /\ 0 <= rp /\ rp < msg_size * msg_count
           /\ \A h \in Readers \cup Writers :
                  0 <= f_pos[h] /\ f_pos[h] < msg_size * msg_count

\* C24: with a file open the buffer holds exactly msg_size * msg_count
\* bytes, and no copy reaches outside the allocation.
C24_BufferMatchesConfig ==
    /\ ~ub
    /\ Readers \cup Writers # {} => Len(buf) = msg_size * msg_count

\* ----------------------------------------------------------- the registry
\* The names written to create_topic and remove_topic: "" is the empty
\* write, "long" a name of MAX_STR_LEN + 1 bytes, the others have one byte.
NameInputs == {"", "a", "b", "long"}

StrLen(nm) == IF nm = "" THEN 0 ELSE IF nm = "long" THEN MAX_STR_LEN + 1 ELSE 1

RegistryOps == {"create_topic_store", "remove_topic_store"}

\* The steps of create_topic_store that may fail: kzalloc, cdev_add,
\* kobject_set_name, device_register.
CreateSteps == {"kzalloc", "cdev_add", "kobject_set_name", "device_register"}

\* reserve_minor_num: the first i with minor_nums[i] = 0, or -1.
Minors == 0..(NUM_TOPICS - 1)

reserve_minor_num ==
    IF Minors \subseteq minor_nums THEN -1
    ELSE CHOOSE i \in Minors \ minor_nums : \A j \in Minors \ minor_nums : i <= j

\* What create_topic_store returns for the name nm when step fail fails
\* ("none": no step fails by itself).  device_register refuses a name that
\* is registered already.
CreateErr(nm, fail) ==
    IF fail = "kzalloc" THEN "ENOMEM"
    ELSE IF reserve_minor_num < 0 THEN "E2BIG"
    ELSE IF fail \in {"cdev_add", "kobject_set_name"} THEN "ENOMEM"
    ELSE IF fail = "device_register" \/ nm \in TopicNames THEN "EEXIST"
    ELSE "none"

\* A call of create_topic_store or remove_topic_store returns e/v without
\* having reached mutex_lock_interruptible(&topic_mtx).
Refused(o, nm, e) ==
    /\ ret' = Ret(Admin, o, StrLen(nm), e, 0, {}, FALSE)
    /\ UNCHANGED <<topic, mtx, pc, op, arg, touched, registry, ub>>

\* The call finds topic_mtx held and waits in mutex_lock_interruptible.
AwaitRegistry(o, nm) ==
    /\ pc' = [pc EXCEPT ![Admin] = "lock"]
    /\ op' = [op EXCEPT ![Admin] = o]
    /\ arg' = [arg EXCEPT ![Admin] = Arg(0, FALSE, StrLen(nm))]
    /\ ret' = NoRet
    /\ UNCHANGED <<topic, mtx, touched, registry, ub>>

\* A write of the name nm to the class attribute create_topic, with
\* topic_mtx free: the whole of create_topic_store.  The paths that fail
\* after mutex_lock_interruptible return with topic_mtx held, and those that
\* fail after reserve_minor_num leave the minor reserved.  A topic created
\* under the name of the topic the model follows is this topic, new.
create_topic_store(nm, fail) ==
    /\ ~ub /\ pc[Admin] = "idle"
    /\ IF StrLen(nm) = 0 \/ StrLen(nm) > MAX_STR_LEN
       THEN Refused("create_topic_store", nm, "EINVAL")
       ELSE IF topic_mtx # "free"
       THEN AwaitRegistry("create_topic_store", nm)
       ELSE LET err == CreateErr(nm, fail)
                minor_num == reserve_minor_num
                fresh == err = "none" /\ nm = DevName
            IN  /\ minor_nums' = IF fail # "kzalloc" /\ minor_num >= 0
                                 THEN minor_nums \cup {minor_num} ELSE minor_nums
                /\ topics' = IF err = "none"
                             THEN topics \cup {[name |-> nm, minor |-> minor_num]}
                             ELSE topics
                /\ topic_mtx' = IF err = "none" THEN "free" ELSE Admin
                /\ msg_size' = IF fresh THEN 0 ELSE msg_size
                /\ msg_count' = IF fresh THEN 0 ELSE msg_count
                /\ nreaders' = IF fresh THEN 0 ELSE nreaders
                /\ nwriters' = IF fresh THEN 0 ELSE nwriters
                /\ wp' = IF fresh THEN 0 ELSE wp
                /\ rp' = IF fresh THEN 0 ELSE rp
                /\ len' = IF fresh THEN 0 ELSE len
                /\ rcount' = IF fresh THEN 0 ELSE rcount
                /\ buf' = IF fresh THEN <<>> ELSE buf
                /\ ret' = Ret(Admin, "create_topic_store", StrLen(nm), err,
                              IF err = "none" THEN StrLen(nm) ELSE 0, {}, FALSE)
                /\ UNCHANGED <<mtx, pc, op, arg, touched, ub>>
    /\ UNCHANGED <<f_mode, f_pos, nwritten, start, got, leaks>>

\* delete_topic of the topic named nm: its minor is released, it leaves the
\* list, and its buffer and the struct topic are freed.  When files of the
\* topic the model follows are open or being opened, every later call on
\* them, their close included, works on freed memory: the behaviour is
\* undefined from here on, and the model stops.
delete_topic(nm) ==
    LET e == CHOOSE x \in topics : x.name = nm
    IN  /\ minor_nums' = minor_nums \ {e.minor}
        /\ topics' = topics \ {e}
        /\ ub' = (nm = DevName /\ ~Closed)

\* A write of the name nm to the class attribute remove_topic, with
\* topic_mtx free: the whole of remove_topic_store.
remove_topic_store(nm) ==
    /\ ~ub /\ pc[Admin] = "idle"
    /\ IF StrLen(nm) >= MAX_STR_LEN
       THEN Refused("remove_topic_store", nm, "EINVAL")
       ELSE IF topic_mtx # "free"
       THEN AwaitRegistry("remove_topic_store", nm)
       ELSE /\ IF nm \in TopicNames
               THEN delete_topic(nm)
               ELSE UNCHANGED <<topics, minor_nums, ub>>
            /\ topic_mtx' = "free"
            /\ ret' = IF nm \in TopicNames
                      THEN Ret(Admin, "remove_topic_store", StrLen(nm), "none",
                               StrLen(nm), {}, FALSE)
                      ELSE Ret(Admin, "remove_topic_store", StrLen(nm), "ENODEV",
                               0, {}, FALSE)
            /\ UNCHANGED <<topic, mtx, pc, op, arg, touched>>
    /\ UNCHANGED <<f_mode, f_pos, nwritten, start, got, leaks>>

\* A signal arrives while the call waits in
\* mutex_lock_interruptible(&topic_mtx).
topic_mtx_interrupted(t) ==
    /\ ~ub /\ pc[t] = "lock" /\ op[t] \in RegistryOps /\ topic_mtx # "free"
    /\ mtx' = mtx
    /\ Interrupted(t)

\* Topics are created and removed while the files of one of them are opened
\* and closed.
NextRegistry ==
    \/ \E nm \in NameInputs, fail \in CreateSteps \cup {"none"} :
           create_topic_store(nm, fail)
    \/ \E nm \in NameInputs : remove_topic_store(nm)
    \/ topic_mtx_interrupted(Admin)
    \/ \E f \in Pair, m \in {"R", "W"} : call_open(f, m)
    \/ \E f \in Pair : call_release(f)
    \/ \E t \in Pair : mutex_lock(t)
    \/ \E t \in Pair : kpub_open(t)
    \/ \E t \in Pair : kpub_release(t)

SpecRegistry == Init /\ [][NextRegistry]_vars

\* C25: the topic and its buffer are freed only when no file is open: while
\* nreaders + nwriters > 0 the topic is not deleted (it stays in the list).
C25_FreedOnlyWhenClosed == nreaders + nwriters > 0 => Live

\* C26: 0 <= rcount <= nreaders in every reachable state (rcount is
\* unsigned: a negative representative is a value of 2^31 or more).
C26_CountdownInRange == 0 <= rcount /\ rcount <= nreaders

\* C27: a write of n above the limit to msg_size or msg_count returns
\* -EINVAL and leaves both attributes as they were.
C27_RejectedStoreKeepsValue ==
    [][\A o \in Stores :
          /\ pc[Admin] = "crit" /\ op[Admin] = o /\ arg[Admin].n > Limit(o)
          /\ pc'[Admin] # "crit"
          => /\ ret'.t = Admin /\ ret'.err = "EINVAL"
             /\ msg_size' = msg_size /\ msg_count' = msg_count]_vars

\* C28: topic_mtx is released on every return path of create_topic_store
\* and remove_topic_store: with no such call in progress it is free.
C28_RegistryLockReleased ==
    op[Admin] \notin RegistryOps => topic_mtx = "free"

\* C29: a create_topic_store that fails leaves the list and the minor table
\* as they were, and the reserved minors are the minors of the topics in the
\* list.
C29_FailedCreateLeavesRegistry ==
    [][/\ ret'.op = "create_topic_store" /\ ret'.err # "none"
           => topics' = topics /\ minor_nums' = minor_nums
       /\ minor_nums' = {e.minor : e \in topics'}]_vars

====
